---------------------------- MODULE Spec2Model ----------------------------
(***************************************************************************)
(* A model of the Tlon MCP server (src/index.js): the three tools         *)
(* send-dm, read-dm-history and list-contacts, the functions they are     *)
(* made of, and the remote ship they talk to.  The command-line sender    *)
(* (src/unnamed/part_000) composes its message identifier as sendDm does. *)
(*                                                                         *)
(* Strings.  A JavaScript string is a sequence of fragments.  A fragment  *)
(* is one character of data ("b", "~") or one string literal of the code  *)
(* ("Error: ", "Message sent to ").  Concatenation and template literals  *)
(* are \o, startsWith looks at the first fragment, toLowerCase maps the   *)
(* characters.                                                             *)
(***************************************************************************)
EXTENDS Integers, Sequences, FiniteSets, TLC

(***************************************************************************)
(* Bounds of the model.                                                    *)
(***************************************************************************)
MaxCalls == 2
MaxClock == 3

(***************************************************************************)
(* String helpers.                                                         *)
(***************************************************************************)
Range(s) == {s[i] : i \in DOMAIN s}

UpperCase == <<"A","B","C","D","E","F","G","H","I","J","K","L","M",
               "N","O","P","Q","R","S","T","U","V","W","X","Y","Z">>
LowerCase == <<"a","b","c","d","e","f","g","h","i","j","k","l","m",
               "n","o","p","q","r","s","t","u","v","w","x","y","z">>

LowerChar(c) ==
    IF c \in Range(UpperCase)
    THEN LowerCase[CHOOSE i \in DOMAIN UpperCase : UpperCase[i] = c]
    ELSE c

toLowerCase(s) == [i \in DOMAIN s |-> LowerChar(s[i])]

startsWith(s, c) == Len(s) > 0 /\ s[1] = c

\* String.prototype.includes: sub occurs in s as a contiguous run.
includes(s, sub) ==
    \E i \in 0..(Len(s) - Len(sub)) :
        \A j \in 1..Len(sub) : s[i + j] = sub[j]

(***************************************************************************)
(* Values that are not strings.  The inherited property `constructor` of  *)
(* an object literal is the function Object; it is held as the one        *)
(* fragment its string coercion yields, which no string of data equals.   *)
(***************************************************************************)
Undefined == <<"undefined">>
ObjectFunction == <<"function Object() { [native code] }">>
s_constructor == <<"c","o","n","s","t","r","u","c","t","o","r">>

\* obj[key] on an object literal: own properties first, then Object.prototype.
Get(obj, key) ==
    IF key \in DOMAIN obj THEN obj[key]
    ELSE IF key = s_constructor THEN ObjectFunction
    ELSE Undefined

Put(obj, key, val) ==
    [k \in (DOMAIN obj) \cup {key} |-> IF k = key THEN val ELSE obj[k]]

EmptyObject == [k \in {} |-> <<>>]

(***************************************************************************)
(* Ships, names and messages of the model.                                 *)
(***************************************************************************)
zod == <<"z","o","d">>
bus == <<"b","u","s">>
nec == <<"n","e","c">>
sig(s) == <<"~">> \o s

\* const shipName = `~${config.ship}` with the default ship "zod"
shipName == sig(zod)

s_me     == <<"m","e">>
s_myself == <<"m","y","s","e","l","f">>
s_i      == <<"i">>
s_self   == <<"s","e","l","f">>
selfReferences == {s_me, s_myself, s_i, s_self}

(***************************************************************************)
(* Contact records as the contacts agent delivers them: a mapping from    *)
(* ship name to a record or null, in iteration order.  A field is a       *)
(* string, absent, or of another type.                                     *)
(***************************************************************************)
Str(s)  == [t |-> "string", s |-> s]
Absent  == [t |-> "undefined", s |-> <<>>]
Num     == [t |-> "number", s |-> <<"4","2">>]
Null    == [null |-> TRUE, nickname |-> Absent, email |-> Absent, phone |-> Absent]
Rec(n, e, p) == [null |-> FALSE, nickname |-> n, email |-> e, phone |-> p]

\* JavaScript truthiness of a field, and typeof field === "string"
Truthy(f) == f.t = "number" \/ (f.t = "string" /\ f.s # <<>>)
IsString(f) == f.t = "string"

cleanShipOf(ship) == IF startsWith(ship, "~") THEN ship ELSE sig(ship)

EmptyDirectory ==
    [byShip |-> EmptyObject, byNickname |-> EmptyObject,
     byEmail |-> EmptyObject, byPhone |-> EmptyObject]

\* Mutant: a null record is indexed like any other.
formatContactsEntryKeepsNull(formatted, ship, data) ==
    [formatted EXCEPT !.byShip = Put(@, cleanShipOf(ship),
                                     [data |-> data, ship |-> cleanShipOf(ship)])]

\* The body of the forEach callback of formatContacts, for one entry.
formatContactsEntry(formatted, ship, data) ==
    IF data.null THEN formatted
    ELSE LET cleanShip == cleanShipOf(ship) IN
      [byShip |-> Put(formatted.byShip, cleanShip, [data |-> data, ship |-> cleanShip]),
       byNickname |->
          IF Truthy(data.nickname) /\ IsString(data.nickname)
          THEN Put(formatted.byNickname, toLowerCase(data.nickname.s), cleanShip)
          ELSE formatted.byNickname,
       byEmail |->
          IF Truthy(data.email) /\ IsString(data.email)
          THEN Put(formatted.byEmail, toLowerCase(data.email.s), cleanShip)
          ELSE formatted.byEmail,
       byPhone |->
          IF Truthy(data.phone) /\ IsString(data.phone)
          THEN Put(formatted.byPhone, data.phone.s, cleanShip)
          ELSE formatted.byPhone]

RECURSIVE formatContactsFrom(_, _, _)
formatContactsFrom(contacts, i, formatted) ==
    IF i > Len(contacts) THEN formatted
    ELSE formatContactsFrom(contacts, i + 1,
            formatContactsEntry(formatted, contacts[i].ship, contacts[i].data))

formatContacts(contacts) == formatContactsFrom(contacts, 1, EmptyDirectory)


(***************************************************************************)
(* Address resolution (resolveShipName).  The function has one suspension *)
(* point, the contacts query of getContacts: resolveShipNameSync is the    *)
(* code before it, resolveShipNameResume the code after it.  A result is   *)
(* [k |-> "return" | "throw" | "await", v |-> value or error message].     *)
(***************************************************************************)
Return(v) == [k |-> "return", v |-> v]
Throw(m)  == [k |-> "throw", v |-> m]
Await     == [k |-> "await", v |-> <<>>]

\* Mutant: the self-reference words are compared without lower-casing.
resolveShipNameSyncCaseSensitive(nameOrShip, ownShipName) ==
    IF nameOrShip = <<>> THEN Throw(<<"Name or ship ID is required">>)
    ELSE IF nameOrShip \in selfReferences THEN Return(ownShipName)
    ELSE IF startsWith(nameOrShip, "~") THEN Return(nameOrShip)
    ELSE Await

\* Mutant: a name with the sigil is looked up like a nickname.
resolveShipNameSyncNoSigil(nameOrShip, ownShipName) ==
    IF nameOrShip = <<>> THEN Throw(<<"Name or ship ID is required">>)
    ELSE IF toLowerCase(nameOrShip) \in selfReferences THEN Return(ownShipName)
    ELSE Await

resolveShipNameSync(nameOrShip, ownShipName) ==
    IF nameOrShip = <<>> THEN Throw(<<"Name or ship ID is required">>)
    ELSE IF toLowerCase(nameOrShip) \in selfReferences THEN Return(ownShipName)
    ELSE IF startsWith(nameOrShip, "~") THEN Return(nameOrShip)
    ELSE Await

\* Mutant: the nickname is looked up as given, not lower-cased.
resolveShipNameResumeCaseSensitive(rawContacts, nameOrShip, ownShipName) ==
    LET contacts == formatContacts(rawContacts)
        ship     == Get(contacts.byNickname, nameOrShip)
    IN  IF ship = Undefined
        THEN Throw(<<"Could not find a contact with the nickname \"">>
                   \o nameOrShip \o <<"\"">>)
        ELSE Return(ship)

resolveShipNameResume(rawContacts, nameOrShip, ownShipName) ==
    LET contacts   == formatContacts(rawContacts)
        lookupName == toLowerCase(nameOrShip)
        ship       == Get(contacts.byNickname, lookupName)
    IN  IF \E nickname \in DOMAIN contacts.byNickname :
              /\ contacts.byNickname[nickname] = ownShipName
              /\ toLowerCase(nickname) = lookupName
        THEN Return(ownShipName)
        ELSE IF ship = Undefined
        THEN Throw(<<"Could not find a contact with the nickname \"">>
                   \o nameOrShip \o <<"\"">>)
        ELSE Return(ship)

\* error.message || fallback
MessageOr(message, fallback) == IF message = <<>> THEN fallback ELSE message

\* getContacts: the catch block rethrows with the message of the scry error.
getContactsError(message) == MessageOr(message, <<"Failed to fetch contacts">>)

(***************************************************************************)
(* The message identifier (sendDm).  unixToDa and formatUd work on        *)
(* integers of 128 bits; a big integer is held as its base-1000 limbs,     *)
(* least significant first, which are also the groups formatUd prints.     *)
(***************************************************************************)
\* DA_SECOND = 18446744073709551616 = 2^64
DA_SECOND == <<616, 551, 709, 73, 744, 446, 18>>
\* DA_UNIX_EPOCH = 170141184475152167957503069145530368000
DA_UNIX_EPOCH == <<0, 368, 530, 145, 69, 503, 957, 167, 152, 475, 184, 141, 170>>

RECURSIVE MulSmallFrom(_, _, _, _)
MulSmallFrom(a, k, i, carry) ==
    IF i > Len(a)
    THEN (IF carry = 0 THEN <<>> ELSE MulSmallFrom(<<carry>>, 1, 1, 0))
    ELSE LET v == a[i] * k + carry
         IN  <<v % 1000>> \o MulSmallFrom(a, k, i + 1, v \div 1000)

\* a * k for a big integer a and a number k
MulSmall(a, k) == IF k = 0 THEN <<>> ELSE MulSmallFrom(a, k, 1, 0)

Limb(a, i) == IF i <= Len(a) THEN a[i] ELSE 0

RECURSIVE AddFrom(_, _, _, _)
AddFrom(a, b, i, carry) ==
    IF i > Len(a) /\ i > Len(b)
    THEN (IF carry = 0 THEN <<>> ELSE <<carry>>)
    ELSE LET v == Limb(a, i) + Limb(b, i) + carry
         IN  <<v % 1000>> \o AddFrom(a, b, i + 1, v \div 1000)

Add(a, b) == AddFrom(a, b, 1, 0)

\* a / 1000n, the BigInt division, which truncates
Div1000(a) == IF Len(a) <= 1 THEN <<>> ELSE SubSeq(a, 2, Len(a))

\* unixToDa(unix) = DA_UNIX_EPOCH + (BigInt(unix) * DA_SECOND) / 1000n
unixToDa(unix) == Add(DA_UNIX_EPOCH, Div1000(MulSmall(DA_SECOND, unix)))

Digit(d) == <<"0","1","2","3","4","5","6","7","8","9">>[d + 1]
Digits3(n) == <<Digit(n \div 100), Digit((n \div 10) % 10), Digit(n % 10)>>
DigitsOf(n) ==
    IF n >= 100 THEN Digits3(n)
    ELSE IF n >= 10 THEN <<Digit(n \div 10), Digit(n % 10)>>
    ELSE <<Digit(n)>>

RECURSIVE GroupsFrom(_, _)
GroupsFrom(a, i) ==
    IF i = 0 THEN <<>>
    ELSE <<".">> \o Digits3(a[i]) \o GroupsFrom(a, i - 1)

\* formatUd(da.toString()): the decimal digits in groups of three, by dots
formatUd(a) ==
    IF a = <<>> THEN <<"0">>
    ELSE DigitsOf(a[Len(a)]) \o GroupsFrom(a, Len(a) - 1)

\* const id = `${fromShip}/${idUd}`
messageId(fromShip, sentAt) == fromShip \o <<"/">> \o formatUd(unixToDa(sentAt))

\* Mutant: the memo takes a clock reading of its own, after the one of the id.
composeActionTwoReadings(fromShip, toShip, text, sentAt) ==
    [ship |-> toShip,
     diff |-> [id |-> messageId(fromShip, sentAt),
               delta |-> [add |-> [memo |-> [content |-> <<[inline |-> <<text>>]>>,
                                             author |-> fromShip,
                                             sent |-> sentAt + 1],
                                   kind |-> "null",
                                   time |-> "null"]]]]

\* The action sendDm pokes the chat agent with.
composeAction(fromShip, toShip, text, sentAt) ==
    [ship |-> toShip,
     diff |-> [id |-> messageId(fromShip, sentAt),
               delta |-> [add |-> [memo |-> [content |-> <<[inline |-> <<text>>]>>,
                                             author |-> fromShip,
                                             sent |-> sentAt],
                                   kind |-> "null",
                                   time |-> "null"]]]]


(***************************************************************************)
(* Texts and tool responses.  A text is a plain string or the output of   *)
(* JSON.stringify, held with the value it serialises (json is empty or    *)
(* holds that one value).                                                  *)
(***************************************************************************)
PlainText(lit) == [fmt |-> "plain", lit |-> lit, json |-> <<>>, indent |-> 0]
JsonText(kind, value, indent) ==
    [fmt |-> kind, lit |-> <<>>, json |-> <<value>>, indent |-> indent]

\* { content: [{ type: "text", text }] }
Response(text) == [content |-> <<[type |-> "text", text |-> text]>>]

\* JSON.parse: a plain text of this program ("Error: ...") is no JSON.
JSONparse(text) ==
    IF text.fmt = "plain" THEN Throw(<<"Unexpected token">>)
    ELSE Return(text.json[1])

\* Mutant: the error text without its "Error: " prefix.
createErrorResponseNoPrefix(message) ==
    Response(PlainText(MessageOr(message, <<"Unknown error occurred">>)))

\* createErrorResponse(error)
createErrorResponse(message) ==
    Response(PlainText(<<"Error: ">> \o MessageOr(message, <<"Unknown error occurred">>)))

\* `${n}` for an integer n
RECURSIVE NumStr(_)
NumStr(n) ==
    IF n < 0 THEN <<"-">> \o NumStr(0 - n)
    ELSE IF n < 10 THEN <<Digit(n)>>
    ELSE NumStr(n \div 10) \o <<Digit(n % 10)>>

Min(a, b) == IF a < b THEN a ELSE b
Max(a, b) == IF a > b THEN a ELSE b

\* Mutant: the count is capped above but not below.
cappedCountNoFloor(count) == Min(count, 500)

\* const cappedCount = Math.max(1, Math.min(count, 500))
cappedCountOf(count) == Max(1, Min(count, 500))

\* const scryPath = `/dm/${toShip}/writs/newest/${cappedCount}/light`
scryPathOf(toShip, cappedCount) ==
    <<"/dm/">> \o toShip \o <<"/writs/newest/">> \o NumStr(cappedCount) \o <<"/light">>

(***************************************************************************)
(* History normalisation (formatDmHistory).  A raw history is the mapping *)
(* from message id to { memo } in iteration order; memo is empty (absent) *)
(* or holds [author, content, sent].  content is a sequence of blocks     *)
(* [inline |-> <<>> (no inline) or <<words>>].                             *)
(***************************************************************************)
\* Array.prototype.join
RECURSIVE Join(_, _)
Join(parts, sep) ==
    IF parts = <<>> THEN <<>>
    ELSE IF Len(parts) = 1 THEN parts[1]
    ELSE parts[1] \o sep \o Join(Tail(parts), sep)

WhiteSpace == {" ", "\n", "\t"}
RECURSIVE TrimStart(_)
TrimStart(s) ==
    IF s # <<>> /\ s[1] \in WhiteSpace THEN TrimStart(Tail(s)) ELSE s
RECURSIVE TrimEnd(_)
TrimEnd(s) ==
    IF s # <<>> /\ s[Len(s)] \in WhiteSpace THEN TrimEnd(SubSeq(s, 1, Len(s) - 1)) ELSE s
trim(s) == TrimEnd(TrimStart(s))

Digits2(n) == <<Digit((n \div 10) % 10), Digit(n % 10)>>

\* new Date(ms).toISOString(), for 0 <= ms < 86400000 (1 January 1970)
toISOString(ms) ==
    <<"1970-01-01T">> \o Digits2(ms \div 3600000) \o <<":">>
        \o Digits2((ms \div 60000) % 60) \o <<":">>
        \o Digits2((ms \div 1000) % 60) \o <<".">> \o Digits3(ms % 1000) \o <<"Z">>

contentOf(memo) ==
    trim(Join([i \in DOMAIN memo.content |->
                 IF memo.content[i].inline # <<>>
                 THEN Join(memo.content[i].inline[1], <<" ">>)
                 ELSE <<>>],
              <<"\n">>))

\* contacts.byShip[ship]?.nickname || fallback.  A key of byShip carries the
\* sigil, so no inherited property is ever found under it.
nicknameOr(contacts, ship, fallback) ==
    IF ship \in DOMAIN contacts.byShip /\ Truthy(contacts.byShip[ship].data.nickname)
    THEN contacts.byShip[ship].data.nickname.s
    ELSE fallback

\* Mutant: the own ship is displayed like any other ship.
senderNameOfAnyShip(senderShip, contacts, ownShipName) ==
    nicknameOr(contacts, senderShip, senderShip)

\* The display name of a sender: the own identity for the own ship, the
\* directory nickname or else the identity for any other ship.
senderNameOf(senderShip, contacts, ownShipName) ==
    IF senderShip = ownShipName THEN ownShipName
    ELSE nicknameOr(contacts, senderShip, senderShip)

\* The message formatDmHistory pushes for one entry that has a memo.  A memo
\* without an author makes sender.startsWith throw a TypeError.
formatMessage(id, memo, contacts, ownShipName) ==
    IF memo.author = Undefined
    THEN Throw(<<"Cannot read properties of undefined (reading 'startsWith')">>)
    ELSE LET senderShip == cleanShipOf(memo.author) IN
         Return([id |-> id,
                 sender |-> senderNameOf(senderShip, contacts, ownShipName),
                 senderShip |-> senderShip,
                 content |-> contentOf(memo), sent |-> toISOString(memo.sent),
                 timestamp |-> memo.sent])

\* The forEach over the entries: the messages pushed, or the first throw.
RECURSIVE formatMessagesFrom(_, _, _, _, _)
formatMessagesFrom(history, i, messages, contacts, ownShipName) ==
    IF i > Len(history) THEN Return(messages)
    ELSE IF history[i].memo = <<>>
         THEN formatMessagesFrom(history, i + 1, messages, contacts, ownShipName)
         ELSE LET m == formatMessage(history[i].id, history[i].memo[1], contacts,
                                     ownShipName) IN
              IF m.k = "throw" THEN m
              ELSE formatMessagesFrom(history, i + 1, Append(messages, m.v), contacts,
                                      ownShipName)

\* Insert m into a list sorted by (a, b) => b.timestamp - a.timestamp, after
\* the elements it does not precede: Array.prototype.sort is stable.
RECURSIVE InsertSorted(_, _)
InsertSorted(sorted, m) ==
    IF sorted = <<>> THEN <<m>>
    ELSE IF sorted[1].timestamp - m.timestamp > 0 \/ sorted[1].timestamp = m.timestamp
         THEN <<sorted[1]>> \o InsertSorted(Tail(sorted), m)
         ELSE <<m>> \o sorted

RECURSIVE SortFrom(_, _, _)
SortFrom(messages, i, sorted) ==
    IF i > Len(messages) THEN sorted
    ELSE SortFrom(messages, i + 1, InsertSorted(sorted, messages[i]))

\* Mutant: the messages are left in the order of iteration.
sortNot(messages) == messages

sortNewestFirst(messages) == SortFrom(messages, 1, <<>>)

formatDmHistory(history, contacts, ownShipName) ==
    LET messages == formatMessagesFrom(history, 1, <<>>, contacts, ownShipName) IN
    IF messages.k = "throw" THEN messages ELSE Return(sortNewestFirst(messages.v))

\* The conversationInfo read-dm-history attaches to a formatted history.
conversationInfoOf(correspondent, contacts, formattedHistory) ==
    [correspondent |-> correspondent,
     correspondentNickname |-> nicknameOr(contacts, correspondent, <<"null">>),
     messageCount |-> Len(formattedHistory),
     startDate |-> IF Len(formattedHistory) > 0
                   THEN <<formattedHistory[Len(formattedHistory)].sent>> ELSE <<>>,
     endDate |-> IF Len(formattedHistory) > 0
                 THEN <<formattedHistory[1].sent>> ELSE <<>>]


\* JSON.stringify({ meta: conversationInfo, messages: formattedHistory }, null,
\* 2): a property whose value is a function is left out of the text.
stringifyConversation(conversationInfo, formattedHistory) ==
    JsonText("conversation",
             [meta |-> IF conversationInfo.correspondent = ObjectFunction
                       THEN [k \in DOMAIN conversationInfo \ {"correspondent"} |->
                               conversationInfo[k]]
                       ELSE conversationInfo,
              messages |-> formattedHistory],
             2)

(***************************************************************************)
(* The inputs and the remote ship of the model.                            *)
(***************************************************************************)
Bob == <<"B","o","b">>
Zed == <<"Z","e","d">>

\* What the recipient or correspondent parameter may be.
Names ==
    { <<"M","e">>, <<"S","E","L","F">>, s_i, s_myself,
      sig(bus), sig(nec),
      <<"b","o","b">>, <<"B","O","B">>, <<"z","e","d">>,
      <<"n","o","n","e">>, s_constructor, <<>> }

\* What the contacts agent may hold: scry /all of app contacts.
ContactsA ==
    << [ship |-> zod, data |-> Null],
       [ship |-> bus, data |-> Rec(Str(Bob), Absent, Absent)] >>
ContactsB ==
    << [ship |-> zod, data |-> Rec(Str(Zed), Absent, Absent)],
       [ship |-> bus, data |-> Rec(Str(Bob), Str(<<"B","@","x">>), Str(<<"5","5","5">>))],
       [ship |-> nec, data |-> Rec(Str(<<"B","O","B">>), Num, Absent)] >>
\* Keys that carry the sigil, a null record and an empty nickname.
ContactsC ==
    << [ship |-> sig(nec), data |-> Null],
       [ship |-> sig(bus), data |-> Rec(Str(Bob), Str(<<"B","@","x">>), Absent)],
       [ship |-> sig(zod), data |-> Rec(Str(<<>>), Absent, Str(<<"5","5","5">>))] >>
RemoteContacts == {ContactsA, ContactsB, ContactsC}

\* What the chat agent may hold for a correspondent.
Memo(author, words, sent) ==
    <<[author |-> author, content |-> <<[inline |-> <<words>>]>>, sent |-> sent]>>
HistoryA == <<>>
HistoryB ==
    << [id |-> <<"1">>, memo |-> Memo(zod, << <<"h","i">> >>, 100)],
       [id |-> <<"2">>, memo |-> Memo(sig(bus), << <<"y","o">>, <<"!">> >>, 300)],
       [id |-> <<"3">>, memo |-> <<>>],
       [id |-> <<"4">>, memo |-> Memo(bus, << <<" ">> >>, 200)] >>
\* A history whose second memo has no author.
HistoryC ==
    << [id |-> <<"1">>, memo |-> Memo(sig(bus), << <<"h","i">> >>, 100)],
       [id |-> <<"2">>, memo |-> Memo(Undefined, << <<"y","o">> >>, 300)] >>
\* Two memos with the same send time.
HistoryD ==
    << [id |-> <<"1">>, memo |-> Memo(nec, << <<"a">> >>, 200)],
       [id |-> <<"2">>, memo |-> Memo(sig(zod), << <<"b">> >>, 200)] >>
\* The entries of a mapping in every iteration order.
Orders(history) ==
    { [i \in DOMAIN history |-> history[f[i]]] : f \in Permutations(DOMAIN history) }
RemoteHistories == {HistoryA, HistoryB, HistoryC}
HistoryOrders == {HistoryA, HistoryC} \cup Orders(HistoryB) \cup Orders(HistoryD)

Texts == { <<"h","i">> }
Formats == {"raw", "formatted"}
\* z.number().int().positive().max(500).default(100)
ToolCounts == {1, 100, 500}
\* readDmHistory is exported and takes any count.
Counts == {-3, 0, 1, 2, 499, 500, 501, 1000}

\* Error messages of failing remote calls.
ErrNet   == <<"fetch failed">>
ErrPut   == <<"Failed to ", "PUT channel">>
ErrLogin == <<"Login failed with status ", "4", "0", "3">>
ErrNone  == <<>>
ScryErrors  == {ErrNet, ErrNone}
PokeErrors  == {ErrPut, ErrNone}
NameErrors  == {ErrNet}
LoginErrors == {ErrLogin, ErrNone}

apiUrl == <<"http://localhost:8080">>

(***************************************************************************)
(* State.  inv[p] is one tool invocation (or one call of an exported      *)
(* function): its parameters, its locals, the remote calls it has issued  *)
(* (trace) and the call it is suspended on (pc).                           *)
(***************************************************************************)
VARIABLES inv, clock, calls, produced
vars == <<inv, clock, calls, produced>>

\* Two invocations may be in flight at once.  The hosting layer is expected to
\* run one invocation at a time: Spec runs them all as invocation 1.
Procs == {1, 2}
Serial == {1}

Idle ==
    [tool |-> "none", pc |-> "idle", name |-> <<>>, message |-> <<>>,
     count |-> 0, format |-> "raw", recipient |-> <<>>, connErr |-> <<>>,
     reconnErr |-> <<>>, cappedCount |-> 0, action |-> <<>>, contacts |-> <<>>,
     contactsF |-> <<>>, history |-> <<>>, scryErr |-> <<>>,
     rawResponse |-> <<>>, response |-> <<>>, thrown |-> <<>>, trace |-> <<>>]

Ev(op, site, path) == [op |-> op, site |-> site, path |-> path, res |-> "pending"]

\* Issue a remote call and suspend on it.
issue(s, pc, op, site, path) ==
    [s EXCEPT !.pc = pc, !.trace = Append(@, Ev(op, site, path))]
\* The call the invocation is suspended on has completed.
settle(s, res) == [s EXCEPT !.trace[Len(s.trace)].res = res]
\* The invocation returns a response / throws.
finish(s, resp) == [s EXCEPT !.pc = "done", !.response = <<resp>>]
escape(s, message) == [s EXCEPT !.pc = "done", !.thrown = <<message>>]

InSendDm(s) == s.tool \in {"send-dm", "send-dm-legacy"}


(***************************************************************************)
(* sendDm(api, fromShip, toShip, text)                                     *)
(***************************************************************************)
\* Entry: the liveness query api.getOurName() is issued.
sendDmBegin(s, toShip) ==
    issue([s EXCEPT !.recipient = <<toShip>>], "getOurName", "getOurName", "sendDm", <<>>)

\* The session is live: compose the action at Date.now() and poke.
sendDmLive(s, now) ==
    issue([s EXCEPT !.action = <<composeAction(shipName, s.recipient[1], s.message, now)>>],
          "poke", "poke", "sendDm", <<>>)

\* Mutant: a failed poke is issued again.
sendDmCatchRetries(s, message) ==
    IF s.pc = "poke" THEN issue(s, "poke", "poke", "sendDm", <<>>)
    ELSE finish(s, Response(PlainText(<<"Error: ">> \o message)))

\* The outer catch block of sendDm.
sendDmCatch(s, message) ==
    LET m == MessageOr(message, <<"Unknown error occurred">>)
        errorMessage ==
            IF includes(m, <<"PUT channel">>)
            THEN <<"Failed to communicate with the ship. Please verify:\n1. Your ship is still running at ">>
                 \o apiUrl
                 \o <<"\n2. You have the 'chat' app installed and running\n3. The recipient (">>
                 \o s.recipient[1]
                 \o <<") is valid and can receive DMs\n4. Try restarting the server if the issue persists">>
            ELSE m
    IN  finish(s, Response(PlainText(<<"Error: ">> \o errorMessage)))

\* Mutant: a failed liveness query is logged and the poke goes ahead.
sendDmNoReconnect(s, connErr) == sendDmLive([s EXCEPT !.connErr = <<connErr>>], 0)

\* The liveness query failed: reconnect with api.connect().
sendDmReconnect(s, connErr) ==
    issue([s EXCEPT !.connErr = <<connErr>>], "connect", "connect", "sendDm", <<>>)

\* Mutant: the reconnect error itself is thrown to the catch block.
sendDmReconnectRethrown(s, reconnErr) ==
    sendDmCatch([s EXCEPT !.reconnErr = <<reconnErr>>], reconnErr)

\* The reconnect failed.
sendDmReconnectFailed(s, reconnErr) ==
    sendDmCatch([s EXCEPT !.reconnErr = <<reconnErr>>],
                <<"Connection to ship lost and reconnection failed">>)

\* Mutant: the confirmation names the recipient as given, not as resolved.
sendDmPokedNamesInput(s) ==
    finish(s, Response(PlainText(<<"Message sent to ">> \o s.name)))

\* The poke completed.
sendDmPoked(s) ==
    finish(s, Response(PlainText(<<"Message sent to ">> \o s.recipient[1])))

(***************************************************************************)
(* readDmHistory(api, fromShip, toShip, count)                             *)
(***************************************************************************)
readDmHistoryBegin(s, toShip) ==
    issue([s EXCEPT !.recipient = <<toShip>>, !.cappedCount = cappedCountOf(s.count)],
          "getOurName", "getOurName", "readDmHistory", <<>>)

\* The session is live: scry the chat agent.
readDmHistoryLive(s) ==
    issue(s, "history", "scry", "readDmHistory", scryPathOf(s.recipient[1], s.cappedCount))

\* Mutant: a failed liveness query is logged and the history query goes ahead.
readDmHistoryNoReconnect(s, connErr) ==
    readDmHistoryLive([s EXCEPT !.connErr = <<connErr>>])

\* The liveness query failed: reconnect with api.connect().
readDmHistoryReconnect(s, connErr) ==
    issue([s EXCEPT !.connErr = <<connErr>>], "connect", "connect", "readDmHistory", <<>>)

\* The reconnect failed: its error reaches the catch block of readDmHistory.
readDmHistoryReconnectFailed(s, reconnErr) == [s EXCEPT !.reconnErr = <<reconnErr>>]

\* The history query delivered its result.
readDmHistoryScried(s, history) == [s EXCEPT !.history = <<history>>]

\* The history query raised: its error reaches the catch block of readDmHistory.
readDmHistoryScryFailed(s, error) == [s EXCEPT !.scryErr = <<error>>]

\* Mutant: a failed read is answered with an empty history.
readDmHistoryCatchEmpty(message) == Response(JsonText("history", <<>>, 0))

\* The response readDmHistory returns for a history / from its catch block.
readDmHistoryResult(history) == Response(JsonText("history", history, 0))
readDmHistoryCatch(message) ==
    Response(PlainText(<<"Error: ">> \o MessageOr(message, <<"Unknown error occurred">>)))

(***************************************************************************)
(* The execute functions of the tools.                                     *)
(***************************************************************************)
\* The code after `await resolveShipName(...)`, r being its result.
resolved(s, r) ==
    IF r.k = "throw"
    THEN (IF s.tool = "resolveShipName" THEN escape(s, r.v)
          ELSE finish(s, createErrorResponse(r.v)))
    ELSE CASE s.tool = "send-dm" -> sendDmBegin(s, r.v)
           [] s.tool = "read-dm-history" -> readDmHistoryBegin(s, r.v)
           [] OTHER -> [s EXCEPT !.pc = "done", !.recipient = <<r.v>>]

\* A call of resolveShipName, up to its result or its contacts query.
resolveCall(s) ==
    LET r == resolveShipNameSync(s.name, shipName) IN
    IF r.k = "await"
    THEN issue(s, "contactsResolve", "scry", "resolveShipName", <<"/all">>)
    ELSE resolved(s, r)

\* send-dm and read-dm-history: a name with the sigil is used directly.
execute(s) ==
    IF startsWith(s.name, "~")
    THEN (IF s.tool = "send-dm" THEN sendDmBegin(s, s.name)
          ELSE readDmHistoryBegin(s, s.name))
    ELSE resolveCall(s)

\* Mutant: the history is formatted whatever the format parameter says.
historyReadFormatsAlways(s, rawResponse) ==
    LET t == [s EXCEPT !.rawResponse = <<rawResponse>>] IN
    IF s.tool = "readDmHistory" \/ JSONparse(rawResponse.content[1].text).k = "throw"
    THEN finish(t, rawResponse)
    ELSE issue(t, "contactsFormat", "scry", "read-dm-history", <<"/all">>)

\* read-dm-history: the code after `await readDmHistory(...)`.
historyRead(s, rawResponse) ==
    LET t == [s EXCEPT !.rawResponse = <<rawResponse>>] IN
    IF s.tool = "readDmHistory" \/ s.format = "raw" THEN finish(t, rawResponse)
    ELSE IF JSONparse(rawResponse.content[1].text).k = "throw"
         THEN finish(t, rawResponse)
         ELSE issue(t, "contactsFormat", "scry", "read-dm-history", <<"/all">>)

\* Mutant: a failure of the formatting steps is reported as an error.
historyFormatFailedAsError(s) ==
    finish(s, createErrorResponse(<<"Error formatting history">>))

\* read-dm-history: catch (formatError), the raw response is returned.
historyFormatFailed(s) == finish(s, s.rawResponse[1])

\* read-dm-history: the contacts arrived, the history is formatted.
historyFormatted(s, rawContacts) ==
    LET rawHistory == JSONparse(s.rawResponse[1].content[1].text).v
        contacts == formatContacts(rawContacts)
        formatted == formatDmHistory(rawHistory, contacts, shipName)
        formattedHistory == formatted.v
        conversationInfo == conversationInfoOf(s.recipient[1], contacts, formattedHistory)
        t == [s EXCEPT !.contactsF = <<rawContacts>>]
    IN  IF formatted.k = "throw" THEN historyFormatFailed(t)
        ELSE finish(t, Response(stringifyConversation(conversationInfo,
                                                      formattedHistory)))

\* list-contacts: the contacts arrived.
contactsListed(s, rawContacts) ==
    finish([s EXCEPT !.contactsF = <<rawContacts>>],
           Response(IF s.format = "raw"
                    THEN JsonText("contacts", rawContacts, 2)
                    ELSE JsonText("directory", formatContacts(rawContacts), 2)))


(***************************************************************************)
(* Actions.  An action is one run of an invocation between two suspension *)
(* points: it starts the invocation, or resumes it with the result of the *)
(* call it awaits, and runs it up to the next call it issues or to its    *)
(* end.                                                                    *)
(***************************************************************************)
Init ==
    /\ inv = [p \in Procs |-> Idle]
    /\ clock = 0
    /\ calls = 0
    /\ produced = <<>>

Free(p) == inv[p].pc \in {"idle", "done"} /\ calls < MaxCalls

Begin(p, s) ==
    /\ inv' = [inv EXCEPT ![p] = s]
    /\ calls' = calls + 1
    /\ UNCHANGED <<clock, produced>>

Step(p, s) == inv' = [inv EXCEPT ![p] = s] /\ UNCHANGED <<clock, calls, produced>>

StartSendDm(p) ==
    /\ Free(p)
    /\ \E name \in Names, text \in Texts :
         Begin(p, execute([Idle EXCEPT !.tool = "send-dm", !.name = name,
                                       !.message = text]))

StartReadDmHistory(p) ==
    /\ Free(p)
    /\ \E name \in Names, count \in ToolCounts, format \in Formats :
         Begin(p, execute([Idle EXCEPT !.tool = "read-dm-history", !.name = name,
                                       !.count = count, !.format = format]))

StartListContacts(p) ==
    /\ Free(p)
    /\ \E format \in Formats :
         Begin(p, issue([Idle EXCEPT !.tool = "list-contacts", !.format = format],
                        "contactsList", "scry", "list-contacts", <<"/all">>))

\* A call of resolveShipName on its own.
StartResolveShipName(p) ==
    /\ Free(p)
    /\ \E name \in Names :
         Begin(p, resolveCall([Idle EXCEPT !.tool = "resolveShipName", !.name = name]))

\* A call of the exported readDmHistory on its own.
StartReadDmHistoryCall(p) ==
    /\ Free(p)
    /\ \E count \in Counts :
         Begin(p, readDmHistoryBegin([Idle EXCEPT !.tool = "readDmHistory",
                                                  !.name = sig(bus), !.count = count],
                                     sig(bus)))

\* getContacts in resolveShipName
ContactsResolveOk(p) ==
    /\ inv[p].pc = "contactsResolve"
    /\ \E rawContacts \in RemoteContacts :
         Step(p, resolved([settle(inv[p], "ok") EXCEPT !.contacts = <<rawContacts>>],
                          resolveShipNameResume(rawContacts, inv[p].name, shipName)))

ContactsResolveFail(p) ==
    /\ inv[p].pc = "contactsResolve"
    /\ \E e \in ScryErrors :
         Step(p, resolved(settle(inv[p], "error"), Throw(getContactsError(e))))

\* Proceed in sendDm or readDmHistory once the session is live.
Live(p, s) ==
    IF InSendDm(s)
    THEN LET t == sendDmLive(s, clock) IN
         /\ inv' = [inv EXCEPT ![p] = t]
         /\ produced' = Append(produced, [id |-> t.action[1].diff.id,
                                          sent |-> t.action[1].diff.delta.add.memo.sent])
         /\ UNCHANGED <<clock, calls>>
    ELSE Step(p, readDmHistoryLive(s))

GetOurNameOk(p) ==
    /\ inv[p].pc = "getOurName"
    /\ Live(p, settle(inv[p], "ok"))

GetOurNameFail(p) ==
    /\ inv[p].pc = "getOurName"
    /\ \E connErr \in NameErrors :
         Step(p, IF InSendDm(inv[p])
                 THEN sendDmReconnect(settle(inv[p], "error"), connErr)
                 ELSE readDmHistoryReconnect(settle(inv[p], "error"), connErr))

ConnectOk(p) ==
    /\ inv[p].pc = "connect"
    /\ Live(p, settle(inv[p], "ok"))

ConnectFail(p) ==
    /\ inv[p].pc = "connect"
    /\ \E reconnErr \in LoginErrors :
         Step(p, IF InSendDm(inv[p])
                 THEN sendDmReconnectFailed(settle(inv[p], "error"), reconnErr)
                 ELSE historyRead(readDmHistoryReconnectFailed(settle(inv[p], "error"),
                                                               reconnErr),
                                  readDmHistoryCatch(reconnErr)))

PokeOk(p) ==
    /\ inv[p].pc = "poke"
    /\ Step(p, sendDmPoked(settle(inv[p], "ok")))

PokeFail(p) ==
    /\ inv[p].pc = "poke"
    /\ \E e \in PokeErrors : Step(p, sendDmCatch(settle(inv[p], "error"), e))

\* The history query delivers one of the given histories.
HistoryDelivered(p, histories) ==
    /\ inv[p].pc = "history"
    /\ \E history \in histories :
         Step(p, historyRead(readDmHistoryScried(settle(inv[p], "ok"), history),
                             readDmHistoryResult(history)))

HistoryOk(p) == HistoryDelivered(p, RemoteHistories)

HistoryFail(p) ==
    /\ inv[p].pc = "history"
    /\ \E e \in ScryErrors :
         Step(p, historyRead(readDmHistoryScryFailed(settle(inv[p], "error"), e),
                             readDmHistoryCatch(e)))

ContactsFormatOk(p) ==
    /\ inv[p].pc = "contactsFormat"
    /\ \E rawContacts \in RemoteContacts :
         Step(p, historyFormatted(settle(inv[p], "ok"), rawContacts))

\* getContacts throws: the formatting fallback returns the raw response.
ContactsFormatFail(p) ==
    /\ inv[p].pc = "contactsFormat"
    /\ Step(p, historyFormatFailed(settle(inv[p], "error")))

ContactsListOk(p) ==
    /\ inv[p].pc = "contactsList"
    /\ \E rawContacts \in RemoteContacts :
         Step(p, contactsListed(settle(inv[p], "ok"), rawContacts))

ContactsListFail(p) ==
    /\ inv[p].pc = "contactsList"
    /\ \E e \in ScryErrors :
         Step(p, finish(settle(inv[p], "error"), createErrorResponse(getContactsError(e))))

\* Time passes: Date.now() never goes back.
Tick ==
    /\ clock < MaxClock
    /\ clock' = clock + 1
    /\ UNCHANGED <<inv, calls, produced>>

Next ==
    \/ \E p \in Serial :
        \/ StartSendDm(p) \/ StartReadDmHistory(p) \/ StartListContacts(p)
        \/ StartResolveShipName(p) \/ StartReadDmHistoryCall(p)
        \/ ContactsResolveOk(p) \/ ContactsResolveFail(p)
        \/ GetOurNameOk(p) \/ GetOurNameFail(p)
        \/ ConnectOk(p) \/ ConnectFail(p)
        \/ PokeOk(p) \/ PokeFail(p)
        \/ HistoryOk(p) \/ HistoryFail(p)
        \/ ContactsFormatOk(p) \/ ContactsFormatFail(p)
        \/ ContactsListOk(p) \/ ContactsListFail(p)
    \/ Tick

Spec == Init /\ [][Next]_vars

(***************************************************************************)
(* The formatted reads of a conversation, over the histories in every     *)
(* iteration order: the invocations that normalize a history.              *)
(***************************************************************************)
Correspondents == {sig(bus), sig(nec), <<"b","o","b">>}

StartReadFormatted(p) ==
    /\ Free(p)
    /\ \E name \in Correspondents :
         Begin(p, execute([Idle EXCEPT !.tool = "read-dm-history", !.name = name,
                                       !.count = 100, !.format = "formatted"]))

HistoryOkAnyOrder(p) == HistoryDelivered(p, HistoryOrders)

NextHistory ==
    \E p \in Serial :
        \/ StartReadFormatted(p)
        \/ ContactsResolveOk(p)
        \/ GetOurNameOk(p)
        \/ HistoryOkAnyOrder(p)
        \/ ContactsFormatOk(p) \/ ContactsFormatFail(p)

SpecHistory == Init /\ [][NextHistory]_vars

(***************************************************************************)
(* Two invocations in flight on the one api session: each is resumed at   *)
(* its suspension points in any order.  The recipient and correspondent   *)
(* carry the sigil, so the invocations go straight to sendDm and          *)
(* readDmHistory.                                                           *)
(***************************************************************************)
StartSendDmDirect(p) ==
    /\ Free(p)
    /\ \E text \in Texts :
         Begin(p, execute([Idle EXCEPT !.tool = "send-dm", !.name = sig(bus),
                                       !.message = text]))

StartReadRaw(p) ==
    /\ Free(p)
    /\ Begin(p, execute([Idle EXCEPT !.tool = "read-dm-history", !.name = sig(bus),
                                     !.count = 100, !.format = "raw"]))

NextInterleaved ==
    \/ \E p \in Procs :
        \/ StartSendDmDirect(p) \/ StartReadRaw(p)
        \/ GetOurNameOk(p) \/ GetOurNameFail(p)
        \/ ConnectOk(p) \/ ConnectFail(p)
        \/ PokeOk(p) \/ PokeFail(p)
        \/ HistoryOk(p) \/ HistoryFail(p)
    \/ Tick

SpecInterleaved == Init /\ [][NextInterleaved]_vars

(***************************************************************************)
(* The places where a sigil is put on a name: the contact keys            *)
(* (formatContacts), the message authors (formatDmHistory) and the        *)
(* recipient of the send-dm tool of the earlier variant of the server,    *)
(* whose sendDm is the sendDm above.                                       *)
(***************************************************************************)
\* recipient.replace(/^~/, '')
replaceSigil(recipient) == IF startsWith(recipient, "~") THEN Tail(recipient) ELSE recipient

\* Mutant: the sigil is put in front of the recipient as given.
legacyRecipientPrepends(recipient) == <<"~">> \o recipient

\* const recipient = `~${params.recipient.replace(/^~/, '')}`
legacyRecipient(recipient) == <<"~">> \o replaceSigil(recipient)

LegacyRecipients == {bus, sig(bus), sig(sig(bus)), nec, sig(nec), <<>>}

StartLegacySendDm(p) ==
    /\ Free(p)
    /\ \E name \in LegacyRecipients, text \in Texts :
         Begin(p, sendDmBegin([Idle EXCEPT !.tool = "send-dm-legacy", !.name = name,
                                           !.message = text],
                              legacyRecipient(name)))

NextSigil ==
    \E p \in Serial :
        \/ StartLegacySendDm(p) \/ GetOurNameOk(p) \/ PokeOk(p)
        \/ StartListContacts(p) \/ ContactsListOk(p)
        \/ StartReadFormatted(p) \/ ContactsResolveOk(p)
        \/ HistoryOk(p) \/ ContactsFormatOk(p)

SpecSigil == Init /\ [][NextSigil]_vars


(***************************************************************************)
(* Vocabulary of the properties.                                           *)
(***************************************************************************)
Tools == {"send-dm", "read-dm-history", "list-contacts"}
Finished(s) == s.pc = "done"
TextOf(s) == s.response[1].content[1].text
IsErrorText(t) == t.fmt = "plain" /\ startsWith(t.lit, "Error: ")

\* The remote calls of an invocation, by position in its trace.
IsPoke(e)          == e.op = "poke"
IsHistoryQuery(e)  == e.op = "scry" /\ e.site = "readDmHistory"
IsContactsQuery(e) == e.op = "scry" /\ e.site # "readDmHistory"
IsLiveness(e)      == e.op \in {"getOurName", "connect"}
Has(s, P(_)) == \E i \in DOMAIN s.trace : P(s.trace[i])
HasOk(s, P(_)) == \E i \in DOMAIN s.trace : P(s.trace[i]) /\ s.trace[i].res = "ok"

\* Before call i the liveness check has completed successfully: the identity
\* query succeeded, or the reconnect that followed its failure did.
LiveBefore(s, i) ==
    \E j \in 1..(i - 1) : IsLiveness(s.trace[j]) /\ s.trace[j].res = "ok"
NoLivenessBefore(s, i) ==
    \A j \in 1..(i - 1) : ~IsLiveness(s.trace[j])

\* Both the liveness query and the reconnect of the invocation failed.
SessionLost(s) == s.connErr # <<>> /\ s.reconnErr # <<>>

(***************************************************************************)
(* C1.  Every invocation of send-dm, read-dm-history and list-contacts    *)
(* ends by returning a response { content: [{ type: "text", text }] }: no *)
(* exception escapes execute, and an invocation that did not carry out    *)
(* its operation (no poke, no history query, no contacts listing          *)
(* succeeded: a remote call failed or the name did not resolve) returns a *)
(* text that begins with "Error: ".                                        *)
(***************************************************************************)
WellFormedResponse(r) ==
    /\ DOMAIN r = {"content"}
    /\ Len(r.content) = 1
    /\ DOMAIN r.content[1] = {"type", "text"}
    /\ r.content[1].type = "text"

Failed(s) ==
    CASE s.tool = "send-dm" -> ~HasOk(s, IsPoke)
      [] s.tool = "read-dm-history" -> ~HasOk(s, IsHistoryQuery)
      [] OTHER -> ~HasOk(s, IsContactsQuery)

C2_LivenessBeforeEveryRemoteCall ==
    \A p \in Procs : inv[p].tool \in Tools =>
        \A i \in DOMAIN inv[p].trace :
            inv[p].trace[i].op \in {"poke", "scry"} => LiveBefore(inv[p], i)

(***************************************************************************)
(* C2, amended.  No poke, no history query and no contacts query of the   *)
(* history formatting is issued before the liveness check of the          *)
(* invocation has completed successfully; the contacts query of nickname  *)
(* resolution and that of list-contacts are issued with no liveness check *)
(* before them.                                                             *)
(***************************************************************************)
C2_LivenessBeforePokeAndHistory ==
    \A p \in Procs : inv[p].tool \in Tools =>
        \A i \in DOMAIN inv[p].trace :
            LET e == inv[p].trace[i] IN
            /\ (IsPoke(e) \/ IsHistoryQuery(e)) => LiveBefore(inv[p], i)
            /\ (e.op = "scry" /\ e.site = "read-dm-history") => LiveBefore(inv[p], i)
            /\ (e.op = "scry" /\ e.site \in {"resolveShipName", "list-contacts"})
                  => NoLivenessBefore(inv[p], i)

\* A poke issued after the identity query failed and the reconnect succeeded,
\* in an invocation that had queried the contacts before either.
C2_Witness ==
    \E p \in Procs :
        /\ inv[p].tool = "send-dm"
        /\ Len(inv[p].trace) = 4
        /\ IsContactsQuery(inv[p].trace[1])
        /\ inv[p].trace[2].op = "getOurName" /\ inv[p].trace[2].res = "error"
        /\ inv[p].trace[3].op = "connect" /\ inv[p].trace[3].res = "ok"
        /\ IsPoke(inv[p].trace[4])

(***************************************************************************)
(* C3.  send-dm resolves the address, makes the session live, composes    *)
(* the action and pokes, in this order: at most one poke, issued only     *)
(* with the recipient resolved, after every contacts query, after a       *)
(* successful liveness check and with the action composed for the         *)
(* resolved recipient; "Message sent to <recipient>" names the resolved   *)
(* recipient and is returned only if that poke completed without error.   *)
(***************************************************************************)
SentText(s) == <<"Message sent to ">> \o s.recipient[1]

C3_SendDmOrder ==
    \A p \in Procs : inv[p].tool = "send-dm" =>
        LET s == inv[p] IN
        /\ Cardinality({i \in DOMAIN s.trace : IsPoke(s.trace[i])}) <= 1
        /\ \A i \in DOMAIN s.trace :
              /\ IsLiveness(s.trace[i]) =>
                    /\ s.recipient # <<>>
                    /\ \A j \in DOMAIN s.trace : IsContactsQuery(s.trace[j]) => j < i
              /\ IsPoke(s.trace[i]) =>
                    /\ s.recipient # <<>>
                    /\ LiveBefore(s, i)
                    /\ i = Len(s.trace)
                    /\ s.action # <<>>
                    /\ s.action[1].ship = s.recipient[1]
        /\ s.action # <<>> => Has(s, IsPoke)
        /\ (Finished(s) /\ ~IsErrorText(TextOf(s))) =>
              /\ TextOf(s) = PlainText(SentText(s))
              /\ HasOk(s, IsPoke)

C3_Witness ==
    \E p \in Procs :
        /\ inv[p].tool = "send-dm" /\ Finished(inv[p])
        /\ inv[p].name = <<"b","o","b">>
        /\ TextOf(inv[p]) = PlainText(<<"Message sent to ">> \o sig(bus))
        /\ HasOk(inv[p], IsPoke)

(***************************************************************************)
(* C4, as claimed.  When the liveness query and the reconnect both fail   *)
(* in sendDm or readDmHistory, the error returned carries the liveness    *)
(* error and the reconnect error, and no poke or history query is issued. *)
(***************************************************************************)
C4_SessionLostCarriesBothErrors ==
    \A p \in Procs : (Finished(inv[p]) /\ SessionLost(inv[p])) =>
        /\ IsErrorText(TextOf(inv[p]))
        /\ includes(TextOf(inv[p]).lit, inv[p].connErr[1])
        /\ includes(TextOf(inv[p]).lit, inv[p].reconnErr[1])
        /\ ~Has(inv[p], IsPoke) /\ ~Has(inv[p], IsHistoryQuery)

(***************************************************************************)
(* C4, amended.  When the liveness query and the reconnect both fail, the *)
(* operation returns an error response and issues no poke and no history  *)
(* query; the error of sendDm is the fixed message "Connection to ship    *)
(* lost and reconnection failed" and carries neither error, the error of  *)
(* readDmHistory is the message of the reconnect error alone.              *)
(***************************************************************************)
C4_SessionLostError ==
    \A p \in Procs : (Finished(inv[p]) /\ SessionLost(inv[p])) =>
        /\ TextOf(inv[p]) =
              PlainText(<<"Error: ">> \o
                 (IF inv[p].tool = "send-dm"
                  THEN <<"Connection to ship lost and reconnection failed">>
                  ELSE IF inv[p].reconnErr[1] = <<>> THEN <<"Unknown error occurred">>
                  ELSE inv[p].reconnErr[1]))
        /\ ~Has(inv[p], IsPoke) /\ ~Has(inv[p], IsHistoryQuery)

C4_Witness ==
    \E p \in Procs :
        /\ inv[p].tool = "send-dm" /\ Finished(inv[p])
        /\ inv[p].connErr = <<ErrNet>> /\ inv[p].reconnErr = <<ErrLogin>>


(***************************************************************************)
(* C5.  A send-dm recipient that is no self-reference word, has no sigil  *)
(* and matches no nickname of the directory gets an error response whose  *)
(* text contains the recipient as given, and the invocation performs no   *)
(* liveness check and no poke.                                             *)
(***************************************************************************)
IsSelfReference(name) == toLowerCase(name) \in {s_me, s_myself, s_i, s_self}
ByNickname(s) == formatContacts(s.contacts[1]).byNickname

\* The contacts have arrived and hold no nickname for the recipient.
Unmatched(s) ==
    /\ s.contacts # <<>>
    /\ ~IsSelfReference(s.name) /\ ~startsWith(s.name, "~")
    /\ toLowerCase(s.name) \notin DOMAIN ByNickname(s)

C5_UnresolvedRecipientIsError ==
    \A p \in Procs : (inv[p].tool = "send-dm" /\ Unmatched(inv[p])) =>
        /\ Finished(inv[p])
        /\ inv[p].thrown = <<>>
        /\ IsErrorText(TextOf(inv[p]))
        /\ includes(TextOf(inv[p]).lit, inv[p].name)
        /\ ~Has(inv[p], IsLiveness) /\ ~Has(inv[p], IsPoke)

(***************************************************************************)
(* C6.  An input that equals me, myself, i or self in any letter case     *)
(* resolves to the caller's own identity, and no contacts query is issued *)
(* to resolve it.                                                          *)
(***************************************************************************)
Resolving == {"send-dm", "read-dm-history", "resolveShipName"}
IsResolveQuery(e) == e.op = "scry" /\ e.site = "resolveShipName"

C6_SelfReference ==
    \A p \in Procs : (inv[p].tool \in Resolving /\ IsSelfReference(inv[p].name)) =>
        /\ inv[p].recipient = <<shipName>>
        /\ inv[p].thrown = <<>>
        /\ ~Has(inv[p], IsResolveQuery)

C6_Witness ==
    \E p \in Procs :
        /\ inv[p].tool = "send-dm" /\ inv[p].name = <<"S","E","L","F">>
        /\ inv[p].pc = "poke"
        /\ inv[p].action[1].ship = sig(zod)

(***************************************************************************)
(* C7.  An input with the leading sigil is returned verbatim, whether or  *)
(* not the contacts hold that identity, and no contacts query is issued   *)
(* to resolve it: in send-dm, in read-dm-history and in resolveShipName.  *)
(***************************************************************************)
C7_SigilVerbatim ==
    \A p \in Procs : (inv[p].tool \in Resolving /\ startsWith(inv[p].name, "~")) =>
        /\ inv[p].recipient = <<inv[p].name>>
        /\ inv[p].thrown = <<>>
        /\ ~Has(inv[p], IsResolveQuery)

\* ~nec, which ContactsA does not hold, read in formatted mode.
C7_Witness ==
    \E p \in Procs :
        /\ inv[p].tool = "read-dm-history" /\ inv[p].name = sig(nec)
        /\ Finished(inv[p]) /\ inv[p].contactsF = <<ContactsA>>
        /\ TextOf(inv[p]).fmt = "conversation"
        /\ TextOf(inv[p]).json[1].meta.correspondent = sig(nec)

(***************************************************************************)
(* C8.  An input that is neither a self-reference word nor carries the    *)
(* sigil resolves to the identity the by-nickname index holds for the     *)
(* lower-cased input, an identity with the sigil; so the letter-case      *)
(* variants of a nickname resolve alike, and a nickname of the caller's   *)
(* own ship resolves to the caller's own identity like any other.         *)
(***************************************************************************)
Nicknamed(s) ==
    /\ s.tool \in Resolving
    /\ s.contacts # <<>>
    /\ toLowerCase(s.name) \in DOMAIN ByNickname(s)

C8_NicknameLookup ==
    /\ \A p \in Procs : Nicknamed(inv[p]) =>
          /\ inv[p].recipient = <<ByNickname(inv[p])[toLowerCase(inv[p].name)]>>
          /\ startsWith(inv[p].recipient[1], "~")
          /\ inv[p].thrown = <<>>
    /\ \A p \in Procs :
          (inv[p].tool \in Resolving /\ inv[p].contacts = <<ContactsB>>) =>
              /\ inv[p].name \in {<<"b","o","b">>, <<"B","O","B">>}
                    => inv[p].recipient = <<sig(nec)>>
              /\ inv[p].name = <<"z","e","d">> => inv[p].recipient = <<shipName>>

C8_Witness ==
    \E p \in Procs :
        /\ inv[p].tool = "resolveShipName" /\ Finished(inv[p])
        /\ inv[p].name = <<"B","O","B">> /\ inv[p].contacts = <<ContactsA>>
        /\ inv[p].recipient = <<sig(bus)>>

(***************************************************************************)
(* C9.  The identifiers sendDm produces for one author are pairwise       *)
(* distinct and non-decreasing in send order (the clock of the model      *)
(* never goes back, so every sequence of readings is non-decreasing).     *)
(***************************************************************************)
\* The characters of an identifier, in the order of their code units.
CodeOrder ==
    <<".", "/", "0", "1", "2", "3", "4", "5", "6", "7", "8", "9">> \o LowerCase \o <<"~">>
CodeOf(c) == CHOOSE i \in DOMAIN CodeOrder : CodeOrder[i] = c

\* a < b for two strings, as JavaScript compares them
RECURSIVE StringLess(_, _)
StringLess(a, b) ==
    IF b = <<>> THEN FALSE
    ELSE IF a = <<>> THEN TRUE
    ELSE IF a[1] = b[1] THEN StringLess(Tail(a), Tail(b))
    ELSE CodeOf(a[1]) < CodeOf(b[1])

C9_IdsDistinctAndNonDecreasing ==
    \A i, j \in DOMAIN produced : i < j =>
        /\ produced[i].id # produced[j].id
        /\ ~StringLess(produced[j].id, produced[i].id)

(***************************************************************************)
(* C10.  The count in the path of the history query is the requested      *)
(* count clamped to [1, 500]: 500 for a count above 500, 1 for a count of *)
(* 0 or below, the count itself otherwise.                                 *)
(***************************************************************************)
Clamped(count) == IF count > 500 THEN 500 ELSE IF count <= 0 THEN 1 ELSE count

C10_CountClamped ==
    \A p \in Procs : \A i \in DOMAIN inv[p].trace :
        IsHistoryQuery(inv[p].trace[i]) =>
            inv[p].trace[i].path =
                <<"/dm/">> \o inv[p].recipient[1] \o <<"/writs/newest/">>
                    \o NumStr(Clamped(inv[p].count)) \o <<"/light">>

C10_Witness ==
    \E p \in Procs :
        /\ inv[p].tool = "readDmHistory" /\ inv[p].count = 1000
        /\ Has(inv[p], LAMBDA e : e.path =
               <<"/dm/", "~", "b", "u", "s", "/writs/newest/", "5", "0", "0", "/light">>)

(***************************************************************************)
(* C11.  In a formatted read-dm-history whose history query succeeded, a  *)
(* failure of a later step (the contacts query fails, or the formatting   *)
(* of the history throws, here on a memo without author) makes the        *)
(* invocation return exactly the raw history response, the JSON text of   *)
(* the history, and never an error response.                               *)
(***************************************************************************)
IsFormattingQuery(e) == e.op = "scry" /\ e.site = "read-dm-history"

HasMemoWithoutAuthor(history) ==
    \E i \in DOMAIN history :
        history[i].memo # <<>> /\ history[i].memo[1].author = Undefined

\* A step after the history query failed.
FormattingFailed(s) ==
    \/ Has(s, LAMBDA e : IsFormattingQuery(e) /\ e.res = "error")
    \/ /\ HasOk(s, IsFormattingQuery)
       /\ HasMemoWithoutAuthor(s.rawResponse[1].content[1].text.json[1])

C11_FormattingFallsBackToRaw ==
    \A p \in Procs :
        LET s == inv[p] IN
        (/\ s.tool = "read-dm-history" /\ s.format = "formatted" /\ Finished(s)
         /\ HasOk(s, IsHistoryQuery)
         /\ FormattingFailed(s)) =>
            /\ s.response = s.rawResponse
            /\ TextOf(s).fmt = "history"
            /\ ~IsErrorText(TextOf(s))

\* The contacts arrived and the formatting threw: the raw history is returned.
C11_Witness ==
    \E p \in Procs :
        LET s == inv[p] IN
        /\ s.tool = "read-dm-history" /\ s.format = "formatted" /\ Finished(s)
        /\ HasOk(s, IsHistoryQuery) /\ HasOk(s, IsFormattingQuery)
        /\ HasMemoWithoutAuthor(s.rawResponse[1].content[1].text.json[1])
        /\ s.response = <<readDmHistoryResult(HistoryC)>>

(***************************************************************************)
(* C12.  A raw read-dm-history whose history query succeeded returns the  *)
(* JSON text (JSON.stringify, no indentation) of the mapping the query    *)
(* delivered, and issues no contacts query after the history query.  A    *)
(* contacts query after the history query, and a response that holds a    *)
(* normalized conversation, occur only when the format is formatted.      *)
(***************************************************************************)
\* A contacts query follows the history query in the trace.
ContactsQueryAfterHistory(s) ==
    \E i, j \in DOMAIN s.trace :
        i < j /\ IsHistoryQuery(s.trace[i]) /\ IsContactsQuery(s.trace[j])

IsConversation(s) == Len(s.response) = 1 /\ TextOf(s).fmt = "conversation"

C12_RawIsUnmodified ==
    \A p \in Procs :
        LET s == inv[p] IN
        s.tool = "read-dm-history" =>
            /\ (s.format = "raw" /\ Finished(s) /\ HasOk(s, IsHistoryQuery)) =>
                  /\ s.history # <<>>
                  /\ TextOf(s) = [fmt |-> "history", lit |-> <<>>, json |-> s.history,
                                  indent |-> 0]
            /\ s.format = "raw" => ~ContactsQueryAfterHistory(s)
            /\ (ContactsQueryAfterHistory(s) \/ IsConversation(s)) =>
                  s.format = "formatted"

\* A raw read of a history with three memos, after a nickname was resolved
\* with a contacts query before the history query.
C12_Witness ==
    \E p \in Procs :
        LET s == inv[p] IN
        /\ s.tool = "read-dm-history" /\ s.format = "raw" /\ Finished(s)
        /\ Has(s, IsResolveQuery)
        /\ HasOk(s, IsHistoryQuery)
        /\ s.history = <<HistoryB>>
        /\ TextOf(s).json = <<HistoryB>>

(***************************************************************************)
(* C13, as claimed.  In the result of a formatted read-dm-history,        *)
(* meta.correspondent is the resolved identity, meta.messageCount is the  *)
(* number of messages of the list, meta.startDate is the send time of the *)
(* message with the smallest timestamp and meta.endDate that of the       *)
(* message with the largest (so startDate is never later than endDate),   *)
(* and both dates are null exactly when the list is empty.                 *)
(***************************************************************************)
\* The JSON value of a conversation response.
ConversationOf(s) == TextOf(s).json[1]

Formatted(s) ==
    s.tool = "read-dm-history" /\ s.format = "formatted" /\ Finished(s)
        /\ IsConversation(s)

Oldest(messages, m) == \A n \in Range(messages) : m.timestamp <= n.timestamp
Newest(messages, m) == \A n \in Range(messages) : m.timestamp >= n.timestamp

MetaCountsAndDates(c) ==
    /\ c.meta.messageCount = Len(c.messages)
    /\ (c.meta.startDate = <<>>) <=> (c.messages = <<>>)
    /\ (c.meta.endDate = <<>>) <=> (c.messages = <<>>)
    /\ c.messages # <<>> =>
          /\ \E m \in Range(c.messages) :
                Oldest(c.messages, m) /\ c.meta.startDate = <<m.sent>>
          /\ \E m \in Range(c.messages) :
                Newest(c.messages, m) /\ c.meta.endDate = <<m.sent>>
          /\ ~StringLess(c.meta.endDate[1], c.meta.startDate[1])

MetaCorrespondent(s) ==
    /\ "correspondent" \in DOMAIN ConversationOf(s).meta
    /\ ConversationOf(s).meta.correspondent = s.recipient[1]

C13_MetaSummarisesConversation ==
    \A p \in Procs : Formatted(inv[p]) =>
        /\ MetaCorrespondent(inv[p])
        /\ MetaCountsAndDates(ConversationOf(inv[p]))

(***************************************************************************)
(* C13, for the invocations whose correspondent resolved to a ship: the   *)
(* whole of the claim holds for them.                                      *)
(***************************************************************************)
C13_MetaOfResolvedShip ==
    \A p \in Procs :
        (Formatted(inv[p]) /\ inv[p].recipient[1] # ObjectFunction) =>
            /\ MetaCorrespondent(inv[p])
            /\ MetaCountsAndDates(ConversationOf(inv[p]))

\* Three messages, sent at 100, 300 and 200: the dates are those of 100 and 300.
C13_Witness ==
    \E p \in Procs :
        /\ Formatted(inv[p])
        /\ inv[p].name = <<"b","o","b">>
        /\ ConversationOf(inv[p]).meta.correspondent = sig(bus)
        /\ ConversationOf(inv[p]).meta.messageCount = 3
        /\ ConversationOf(inv[p]).meta.startDate = <<toISOString(100)>>
        /\ ConversationOf(inv[p]).meta.endDate = <<toISOString(300)>>

(***************************************************************************)
(* C14.  Whatever the iteration order of the raw history, the messages of *)
(* a normalized conversation are in descending order of their numeric     *)
(* send timestamp, and there is exactly one message for each raw entry    *)
(* that has a memo (same id, same timestamp) and no other message.        *)
(***************************************************************************)
Descending(messages) ==
    \A i, j \in DOMAIN messages : i < j => messages[i].timestamp >= messages[j].timestamp

\* The positions of the raw entries that have a memo.
WithMemo(history) == {i \in DOMAIN history : history[i].memo # <<>>}

OnePerMemo(history, messages) ==
    /\ Len(messages) = Cardinality(WithMemo(history))
    /\ \A i \in WithMemo(history) :
          Cardinality({j \in DOMAIN messages :
                          /\ messages[j].id = history[i].id
                          /\ messages[j].timestamp = history[i].memo[1].sent}) = 1

C14_NewestFirstOnePerMemo ==
    \A p \in Procs : Formatted(inv[p]) =>
        /\ Descending(ConversationOf(inv[p]).messages)
        /\ OnePerMemo(inv[p].history[1], ConversationOf(inv[p]).messages)

\* The history delivered oldest first, with an entry without memo in between.
C14_Witness ==
    \E p \in Procs :
        /\ Formatted(inv[p])
        /\ Len(inv[p].history[1]) = 4
        /\ inv[p].history[1][1].memo # <<>> /\ inv[p].history[1][1].memo[1].sent = 100
        /\ inv[p].history[1][2].memo # <<>> /\ inv[p].history[1][2].memo[1].sent = 200
        /\ inv[p].history[1][3].memo = <<>>
        /\ inv[p].history[1][4].memo # <<>> /\ inv[p].history[1][4].memo[1].sent = 300
        /\ [i \in 1..3 |-> ConversationOf(inv[p]).messages[i].timestamp] = <<300, 200, 100>>

(***************************************************************************)
(* C15.  In every normalized conversation a message whose author, given   *)
(* with or without the sigil, is the own ship is displayed under the own  *)
(* identity ~zod and never under a nickname, also when the directory      *)
(* holds a nickname for the own ship; a message of any other author is    *)
(* displayed under the nickname the directory holds for the author, if it *)
(* holds one, and under the identity with the sigil otherwise.             *)
(***************************************************************************)
WithSigil(ship) == IF ship # <<>> /\ ship[1] = "~" THEN ship ELSE <<"~">> \o ship

\* The author of the raw entry a message was made from.
AuthorOf(history, m) ==
    (CHOOSE i \in WithMemo(history) : history[i].id = m.id) 

DisplayName(directory, ship) ==
    IF ship \in DOMAIN directory.byShip /\ Truthy(directory.byShip[ship].data.nickname)
    THEN directory.byShip[ship].data.nickname.s
    ELSE ship

C15_OwnShipNeverNicknamed ==
    \A p \in Procs : Formatted(inv[p]) =>
        LET history == inv[p].history[1]
            directory == formatContacts(inv[p].contactsF[1])
        IN  \A m \in Range(ConversationOf(inv[p]).messages) :
                LET author == history[AuthorOf(history, m)].memo[1].author IN
                /\ m.senderShip = WithSigil(author)
                /\ author \in {zod, <<"~">> \o zod} => m.sender = <<"~">> \o zod
                /\ author \notin {zod, <<"~">> \o zod} =>
                      m.sender = DisplayName(directory, WithSigil(author))

\* The directory holds the nickname Zed for the own ship and Bob for ~bus; the
\* history has a message of zod, shown as ~zod, and two of bus, shown as Bob.
C15_Witness ==
    \E p \in Procs :
        /\ Formatted(inv[p])
        /\ inv[p].contactsF = <<ContactsB>>
        /\ inv[p].history = <<HistoryB>>
        /\ [i \in 1..3 |-> ConversationOf(inv[p]).messages[i].sender]
              = <<Bob, Bob, <<"~">> \o zod>>

(***************************************************************************)
(* C16.  Within one call of sendDm or readDmHistory the liveness query is *)
(* issued once; connect is issued only directly after that query failed,  *)
(* and at most once, so a call whose liveness query succeeded holds no    *)
(* connect; the poke or the history query is issued at most once, and     *)
(* once it has failed the call issues no further remote call.              *)
(***************************************************************************)
\* The remote calls sendDm and readDmHistory issue, in order.
InCall(e) == e.site \in {"sendDm", "readDmHistory"}
CallTrace(s) == SelectSeq(s.trace, InCall)

IsOperation(e) == IsPoke(e) \/ IsHistoryQuery(e)
Count(t, P(_)) == Cardinality({i \in DOMAIN t : P(t[i])})

C16_OneReconnectNoRetry ==
    \A p \in Procs :
        LET t == CallTrace(inv[p]) IN
        /\ Count(t, LAMBDA e : e.op = "getOurName") <= 1
        /\ Count(t, LAMBDA e : e.op = "connect") <= 1
        /\ Count(t, IsOperation) <= 1
        /\ \A i \in DOMAIN t :
              /\ t[i].op = "connect" =>
                    i > 1 /\ t[i - 1].op = "getOurName" /\ t[i - 1].res = "error"
              /\ (t[i].op = "getOurName" /\ t[i].res = "ok") =>
                    \A j \in DOMAIN t : t[j].op # "connect"
              /\ (IsOperation(t[i]) /\ t[i].res = "error") =>
                    i = Len(t) /\ Finished(inv[p])

\* The liveness query failed, the one reconnect succeeded, the poke failed
\* and the call ended with these three remote calls.
C16_Witness ==
    \E p \in Procs :
        /\ Finished(inv[p])
        /\ [i \in 1..Len(CallTrace(inv[p])) |->
               <<CallTrace(inv[p])[i].op, CallTrace(inv[p])[i].res>>]
             = << <<"getOurName", "error">>, <<"connect", "ok">>, <<"poke", "error">> >>

(***************************************************************************)
(* C17.  Nothing in sendDm or readDmHistory keeps the reconnects in       *)
(* progress on the one session at or below one: an invocation that waits  *)
(* for its liveness query can see it fail whatever the other invocation   *)
(* is doing, also while that one is reconnecting, and every invocation    *)
(* that saw its liveness query fail has issued a reconnect of its own.    *)
(* Two invocations are therefore found reconnecting at the same time.     *)
(***************************************************************************)
Reconnecting(s) == s.pc = "connect"
ReconnectsInProgress == Cardinality({p \in Procs : Reconnecting(inv[p])})

LivenessFailed(s) == Has(s, LAMBDA e : e.op = "getOurName" /\ e.res = "error")

C17_EachRunsItsOwnReconnect ==
    \A p \in Procs :
        /\ inv[p].pc = "getOurName" => ENABLED GetOurNameFail(p)
        /\ LivenessFailed(inv[p]) =>
              /\ inv[p].connErr # <<>>
              /\ Has(inv[p], LAMBDA e : e.op = "connect")

\* Both invocations saw the liveness query fail before either reconnect had
\* finished: two reconnects are in progress.
C17_Witness ==
    /\ ReconnectsInProgress = 2
    /\ \A p \in Procs :
          /\ LivenessFailed(inv[p])
          /\ inv[p].trace[Len(inv[p].trace)] = Ev("connect", inv[p].trace[1].site, <<>>)
    /\ \E p, q \in Procs : inv[p].tool = "send-dm" /\ inv[q].tool = "read-dm-history"

(***************************************************************************)
(* C18.  The id of a composed message is the author, a slash and the      *)
(* encoded send time, and memo.sent is the clock reading the id encodes;  *)
(* of two messages of the same author composed at t1 < t2, the id of the  *)
(* first sorts before the id of the second.                                *)
(***************************************************************************)
\* The time t (milliseconds since 1970) as the ship writes it: the number
\* 170141184475152167957503069145530368000 + floor(t * 2^64 / 1000), its
\* decimal digits in groups of three, written out for the readings of the
\* clock.
EncodedTime(t) ==
    CASE t = 0 ->
           << "1", "7", "0", ".", "1", "4", "1", ".", "1", "8", "4", ".", "4", "7", "5", ".", "1",
              "5", "2", ".", "1", "6", "7", ".", "9", "5", "7", ".", "5", "0", "3", ".", "0", "6",
              "9", ".", "1", "4", "5", ".", "5", "3", "0", ".", "3", "6", "8", ".", "0", "0", "0" >>
      [] t = 1 ->
           << "1", "7", "0", ".", "1", "4", "1", ".", "1", "8", "4", ".", "4", "7", "5", ".", "1",
              "5", "2", ".", "1", "6", "7", ".", "9", "5", "7", ".", "5", "2", "1", ".", "5", "1",
              "5", ".", "8", "8", "9", ".", "6", "0", "4", ".", "0", "7", "7", ".", "5", "5", "1" >>
      [] t = 2 ->
           << "1", "7", "0", ".", "1", "4", "1", ".", "1", "8", "4", ".", "4", "7", "5", ".", "1",
              "5", "2", ".", "1", "6", "7", ".", "9", "5", "7", ".", "5", "3", "9", ".", "9", "6",
              "2", ".", "6", "3", "3", ".", "6", "7", "7", ".", "7", "8", "7", ".", "1", "0", "3" >>
      [] t = 3 ->
           << "1", "7", "0", ".", "1", "4", "1", ".", "1", "8", "4", ".", "4", "7", "5", ".", "1",
              "5", "2", ".", "1", "6", "7", ".", "9", "5", "7", ".", "5", "5", "8", ".", "4", "0",
              "9", ".", "3", "7", "7", ".", "7", "5", "1", ".", "4", "9", "6", ".", "6", "5", "4" >>
      [] t = 4 ->
           << "1", "7", "0", ".", "1", "4", "1", ".", "1", "8", "4", ".", "4", "7", "5", ".", "1",
              "5", "2", ".", "1", "6", "7", ".", "9", "5", "7", ".", "5", "7", "6", ".", "8", "5",
              "6", ".", "1", "2", "1", ".", "8", "2", "5", ".", "2", "0", "6", ".", "2", "0", "6" >>

MemoOf(action) == action.diff.delta.add.memo

C18_IdEncodesSendTime ==
    /\ \A p \in Procs : inv[p].action # <<>> =>
          LET action == inv[p].action[1] IN
          /\ MemoOf(action).author = <<"~">> \o zod
          /\ action.diff.id =
                MemoOf(action).author \o <<"/">> \o EncodedTime(MemoOf(action).sent)
    /\ \A i, j \in DOMAIN produced :
          produced[i].sent < produced[j].sent =>
              StringLess(produced[i].id, produced[j].id)

\* Two messages composed at the readings 1 and 3.
C18_Witness ==
    /\ Len(produced) = 2
    /\ produced[1].sent = 1 /\ produced[2].sent = 3
    /\ produced[1].id = <<"~">> \o zod \o <<"/">> \o EncodedTime(1)
    /\ StringLess(produced[1].id, produced[2].id)
    /\ \E p \in Procs : inv[p].action # <<>> /\ MemoOf(inv[p].action[1]).sent = 3

(***************************************************************************)
(* C19.  A ship for which the raw contacts hold no record, or a null      *)
(* record, is in none of the four indices of the directory built from     *)
(* them: it is no key of byShip and no value of byNickname, byEmail or    *)
(* byPhone.  A nickname the directory holds therefore resolves to a ship  *)
(* that has a record which is not null.                                    *)
(***************************************************************************)
\* The raw contacts hold a record, not null, for the ship.
HasRecord(rawContacts, ship) ==
    \E i \in DOMAIN rawContacts :
        WithSigil(rawContacts[i].ship) = ship /\ ~rawContacts[i].data.null

Values(index) == {index[k] : k \in DOMAIN index}

Indexed(directory) ==
    DOMAIN directory.byShip \cup Values(directory.byNickname)
        \cup Values(directory.byEmail) \cup Values(directory.byPhone)

\* A formatted list-contacts that received the contacts.
Listed(s) ==
    s.tool = "list-contacts" /\ s.format = "formatted" /\ Finished(s)
        /\ s.contactsF # <<>>

C19_NullRecordsInNoIndex ==
    \A p \in Procs :
        /\ Listed(inv[p]) =>
              \A ship \in Indexed(TextOf(inv[p]).json[1]) :
                  HasRecord(inv[p].contactsF[1], ship)
        /\ (Nicknamed(inv[p]) /\ inv[p].recipient # <<>>) =>
              HasRecord(inv[p].contacts[1], inv[p].recipient[1])

\* The directory of contacts whose record for ~nec is null: ~nec is in no
\* index, ~bus and ~zod are keys of byShip.
C19_Witness ==
    \E p \in Procs :
        /\ Listed(inv[p])
        /\ inv[p].contactsF = <<ContactsC>>
        /\ DOMAIN TextOf(inv[p]).json[1].byShip = {<<"~">> \o bus, <<"~">> \o zod}
        /\ <<"~">> \o nec \notin Indexed(TextOf(inv[p]).json[1])
        /\ Values(TextOf(inv[p]).json[1].byNickname) = {<<"~">> \o bus}

(***************************************************************************)
(* C20.  Putting the sigil on a contact key, on a message author and on   *)
(* the recipient of the earlier send-dm tool gives the name with one      *)
(* sigil in front, the same for the name given with the sigil and for the *)
(* name given without it, and gives its own results back unchanged; so    *)
(* every ship in the indices of a directory carries the sigil.  (A name   *)
(* without the sigil is a name that does not begin with one: of ~~bus     *)
(* only the first sigil is the sigil, and ~~bus is left as it is.)         *)
(***************************************************************************)
\* The name as given, without the sigil in front of it if it has one.
Bare(name) == IF name # <<>> /\ name[1] = "~" THEN Tail(name) ELSE name

CarriesSigil(ship) == ship # <<>> /\ ship[1] = "~"

\* The name goes to normal, the name with one sigil in front; so do both
\* forms of the name; and normal goes to itself.
Normalizes(normalize(_), name, normal) ==
    /\ normal = <<"~">> \o Bare(name)
    /\ CarriesSigil(normal)
    /\ normalize(name) = normal
    /\ ~CarriesSigil(Bare(name)) =>
          /\ normalize(Bare(name)) = normal
          /\ normalize(<<"~">> \o Bare(name)) = normal
    /\ normalize(normal) = normal

C20_SigilNormalization ==
    \A p \in Procs :
        LET s == inv[p] IN
        /\ (s.tool = "send-dm-legacy" /\ s.recipient # <<>>) =>
              Normalizes(legacyRecipient, s.name, s.recipient[1])
        /\ Listed(s) =>
              /\ \A ship \in Indexed(TextOf(s).json[1]) : CarriesSigil(ship)
              /\ \A i \in DOMAIN s.contactsF[1] :
                    ~s.contactsF[1][i].data.null =>
                        \E ship \in DOMAIN TextOf(s).json[1].byShip :
                            /\ TextOf(s).json[1].byShip[ship].ship = ship
                            /\ Normalizes(cleanShipOf, s.contactsF[1][i].ship, ship)
        /\ Formatted(s) =>
              \A m \in Range(ConversationOf(s).messages) :
                  Normalizes(cleanShipOf,
                             s.history[1][AuthorOf(s.history[1], m)].memo[1].author,
                             m.senderShip)

\* The earlier send-dm tool was given ~bus, which it sent to ~bus; and bus,
\* which it sent to ~bus as well.
C20_Witness ==
    \E p \in Procs :
        /\ inv[p].tool = "send-dm-legacy" /\ Finished(inv[p])
        /\ inv[p].name = <<"~">> \o bus
        /\ TextOf(inv[p]) = PlainText(<<"Message sent to ", "~", "b", "u", "s">>)
        /\ Len(produced) = 2

(***************************************************************************)
(* C21.  When the history read of a read-dm-history fails, because the    *)
(* reconnect or the history query raised, the invocation returns the text *)
(* "Error: " followed by the message of that error ("Unknown error        *)
(* occurred" for an error without message), with format raw and with      *)
(* format formatted alike; the failed call is the last remote call of the *)
(* invocation, so no contacts query follows it.                            *)
(***************************************************************************)
\* The error that made readDmHistory fail, if one did.
ReadError(s) ==
    IF Has(s, LAMBDA e : IsHistoryQuery(e) /\ e.res = "error") THEN s.scryErr
    ELSE IF Has(s, LAMBDA e : e.op = "connect" /\ e.res = "error") THEN s.reconnErr
    ELSE <<>>

ErrorTextOf(message) ==
    PlainText(<<"Error: ">>
              \o (IF message = <<>> THEN <<"Unknown error occurred">> ELSE message))

C21_FailedReadIsErrorInBothFormats ==
    \A p \in Procs :
        LET s == inv[p] IN
        (s.tool = "read-dm-history" /\ Len(ReadError(s)) = 1) =>
            /\ Finished(s)
            /\ s.trace[Len(s.trace)].res = "error"
            /\ s.trace[Len(s.trace)].site = "readDmHistory"
            /\ ~Has(s, IsFormattingQuery)
            /\ TextOf(s) = ErrorTextOf(ReadError(s)[1])
            /\ s.response = s.rawResponse

\* A formatted read whose history query failed with "fetch failed" after the
\* correspondent was resolved: one contacts query, and it came before.
C21_Witness ==
    \E p \in Procs :
        LET s == inv[p] IN
        /\ s.tool = "read-dm-history" /\ s.format = "formatted" /\ Finished(s)
        /\ s.scryErr = <<ErrNet>>
        /\ Len(s.trace) = 3 /\ IsResolveQuery(s.trace[1])
        /\ TextOf(s) = PlainText(<<"Error: ", "fetch failed">>)

=============================================================================
